---- MODULE Spec2Model ----
(***************************************************************************)
(* The four lint rules of the plugin (no-direct-scss-imports,              *)
(* require-document-head, require-entity-query-conditions,                 *)
(* require-generic-props) run by a host that calls create(context) once    *)
(* per file and then hands the nodes of the file's tree to the callbacks   *)
(* create returned.  Tree nodes are records with a type field, as in the   *)
(* ESTree the rules read; a JavaScript null/undefined is the record Null,  *)
(* and a TypeError raised by a property read on undefined is an outcome    *)
(* of its own ("throw"), never folded into false.                         *)
(***************************************************************************)
EXTENDS Integers, Sequences, FiniteSets

VARIABLES
    rule,        \* the rule whose create(context) serves this file
    filePath,    \* context.getFilename()
    options,     \* context.options
    pc,          \* "start" | "ready" | "visited" | "crashed"
    callbacks,   \* node kinds in the table create returned
    node,        \* the node the host is at (Null between nodes)
    verdict,     \* what hasRequiredConditions returned in the last callback
                 \* ("none" when the callback did not call it)
    emitted,     \* diagnostics context.report received from the last callback
    count,       \* diagnostics context.report received so far for this file
    earlier      \* history: one earlier visit of this file, as
                 \* [node, verdict, emitted] (Null: none is kept)

vars == <<rule, filePath, options, pc, callbacks, node, verdict, emitted, count,
          earlier>>

----------------------------------------------------------------------------
(* Bounds of the model *)

MaxConds == 3      \* longest conditions array
MaxGroups == 2     \* longest groups array
MaxSize == 4       \* groups plus their conditions, in the group-rich filters
MaxReports == 2    \* diagnostics per file after which the host stops the walk
MaxPathLen == 5    \* longest imported module path, in characters
MaxPatterns == 2   \* longest excludedFiles list
MaxBody == 2       \* longest top-level declaration sequence
MaxParams == 2     \* longest parameter list of a function argument

----------------------------------------------------------------------------
(* Tree nodes *)

Null == [type |-> "null"]
Thrown == [type |-> "TypeError"]

Ident(name) == [type |-> "Identifier", name |-> name]
Lit(value) == [type |-> "Literal", value |-> value]
Prop(key, value) == [type |-> "Property", key |-> key, value |-> value]
Spread == [type |-> "SpreadElement", argument |-> Ident("rest")]
Obj(properties) == [type |-> "ObjectExpression", properties |-> properties]
Arr(elements) == [type |-> "ArrayExpression", elements |-> elements]

\* A JavaScript property read: a field the node lacks reads as undefined.
Get(n, f) == IF f \in DOMAIN n THEN n[f] ELSE Null
IsNull(n) == n.type = "null"

----------------------------------------------------------------------------
(* require-entity-query-conditions: the validator *)

\* node.type === 'Property' && node.key.type === 'Identifier' && node.key.name === 'entityQuery'
isEntityQuery(n) ==
    /\ n.type = "Property"
    /\ n.key.type = "Identifier"
    /\ n.key.name = "entityQuery"

\* prop => prop.key.type === 'Identifier' && prop.key.name === name
\* A property-list entry without key (a SpreadElement) makes prop.key.type a
\* read on undefined.
keyIsIdentifier(prop, name) ==
    LET key == Get(prop, "key") IN
    IF IsNull(key) THEN "throw"
    ELSE IF key.type = "Identifier" /\ key.name = name THEN "true"
    ELSE "false"

\* properties.find(prop => ...): the first entry the callback accepts, Null
\* (undefined) when none, Thrown when the callback throws on the way.
RECURSIVE findFrom(_, _, _)
findFrom(properties, name, i) ==
    IF i > Len(properties) THEN Null
    ELSE LET r == keyIsIdentifier(properties[i], name) IN
         IF r = "throw" THEN Thrown
         ELSE IF r = "true" THEN properties[i]
         ELSE findFrom(properties, name, i + 1)

find(properties, name) == findFrom(properties, name, 1)

\* fieldProperty && fieldProperty.value && value.type === 'Literal' && value.value === wanted
literalValueIs(property, wanted) ==
    /\ ~IsNull(property)
    /\ ~IsNull(Get(property, "value"))
    /\ property.value.type = "Literal"
    /\ property.value.value = wanted

\* The callback of conditions.some in conditionsArrayHasRequired.
conditionNames(condition, wanted) ==
    IF IsNull(condition) \/ condition.type # "ObjectExpression" THEN "false"
    ELSE LET fieldProperty == find(condition.properties, "field") IN
         IF fieldProperty = Thrown THEN "throw"
         ELSE IF literalValueIs(fieldProperty, wanted) THEN "true"
         ELSE "false"

\* A scan that looks at one element only and gives up: what conditions.some
\* is not.
onlyFirst(conditions, wanted, i) ==
    IF i > Len(conditions) THEN "false"
    ELSE conditionNames(conditions[i], wanted)

\* conditions.some(...): left to right, stops at the first element accepted.
RECURSIVE someFrom(_, _, _)
someFrom(conditions, wanted, i) ==
    IF i > Len(conditions) THEN "false"
    ELSE LET r == conditionNames(conditions[i], wanted) IN
         IF r = "false" THEN someFrom(conditions, wanted, i + 1) ELSE r

someConditionNames(conditions, wanted) == someFrom(conditions, wanted, 1)

\* A check that is content with either of the two fields.
eitherFieldSuffices(conditions) ==
    LET hasStatusCondition == someConditionNames(conditions, "status")
        hasDentalLabCondition == someConditionNames(conditions, "dental_laboratory") IN
    IF hasStatusCondition = "throw" \/ hasDentalLabCondition = "throw" THEN "throw"
    ELSE IF hasStatusCondition = "true" \/ hasDentalLabCondition = "true" THEN "true"
    ELSE "false"

\* Both constants are computed before the return: the second scan runs even
\* when the first found nothing.
conditionsArrayHasRequired(conditions) ==
    LET hasStatusCondition == someConditionNames(conditions, "status") IN
    IF hasStatusCondition = "throw" THEN "throw"
    ELSE LET hasDentalLabCondition ==
                 someConditionNames(conditions, "dental_laboratory") IN
         IF hasDentalLabCondition = "throw" THEN "throw"
         ELSE IF hasStatusCondition = "true" /\ hasDentalLabCondition = "true"
              THEN "true"
         ELSE "false"

\* property && property.value && property.value.type === kind
valueIs(property, kind) ==
    /\ ~IsNull(property)
    /\ ~IsNull(Get(property, "value"))
    /\ property.value.type = kind

\* A group check that does not read the conjunction.
anyConjunction(group) ==
    IF IsNull(group) \/ group.type # "ObjectExpression" THEN "false"
    ELSE LET groupConditionsProperty == find(group.properties, "conditions") IN
         IF groupConditionsProperty = Thrown THEN "throw"
         ELSE IF valueIs(groupConditionsProperty, "ArrayExpression")
              THEN conditionsArrayHasRequired(groupConditionsProperty.value.elements)
         ELSE "false"

\* The callback of groups.some in hasRequiredConditions.
groupHasRequired(group) ==
    IF IsNull(group) \/ group.type # "ObjectExpression" THEN "false"
    ELSE LET conjunctionProperty == find(group.properties, "conjunction") IN
         IF conjunctionProperty = Thrown THEN "throw"
         ELSE IF literalValueIs(conjunctionProperty, "AND")
              THEN LET groupConditionsProperty ==
                           find(group.properties, "conditions") IN
                   IF groupConditionsProperty = Thrown THEN "throw"
                   ELSE IF valueIs(groupConditionsProperty, "ArrayExpression")
                        THEN conditionsArrayHasRequired(
                                 groupConditionsProperty.value.elements)
                   ELSE "false"
         ELSE "false"

\* A scan of the groups that pools the conditions of all AND groups.
RECURSIVE pooled(_, _)
pooled(groups, i) ==
    IF i > Len(groups) THEN <<>>
    ELSE LET group == groups[i] IN
         (IF /\ ~IsNull(group)
             /\ group.type = "ObjectExpression"
             /\ literalValueIs(find(group.properties, "conjunction"), "AND")
             /\ valueIs(find(group.properties, "conditions"), "ArrayExpression")
          THEN find(group.properties, "conditions").value.elements
          ELSE <<>>) \o pooled(groups, i + 1)

acrossGroups(groups, i) == conditionsArrayHasRequired(pooled(groups, i))

RECURSIVE someGroupFrom(_, _)
someGroupFrom(groups, i) ==
    IF i > Len(groups) THEN "false"
    ELSE LET r == groupHasRequired(groups[i]) IN
         IF r = "false" THEN someGroupFrom(groups, i + 1) ELSE r

\* The part of hasRequiredConditions that works on the filter literal.
filterHasRequired(filter) ==
    LET conditionsProperty == find(filter.properties, "conditions") IN
    IF conditionsProperty = Thrown THEN "throw"
    ELSE LET top == IF valueIs(conditionsProperty, "ArrayExpression")
                    THEN conditionsArrayHasRequired(
                             conditionsProperty.value.elements)
                    ELSE "false" IN
         IF top # "false" THEN top
         ELSE LET groupsProperty == find(filter.properties, "groups") IN
              IF groupsProperty = Thrown THEN "throw"
              ELSE IF ~valueIs(groupsProperty, "ArrayExpression") THEN "false"
              ELSE someGroupFrom(groupsProperty.value.elements, 1)

hasRequiredConditions(n) ==
    IF IsNull(n) \/ n.type # "ObjectExpression" THEN "false"
    ELSE LET argsProperty == find(n.properties, "__args") IN
         IF argsProperty = Thrown THEN "throw"
         ELSE IF ~valueIs(argsProperty, "ObjectExpression") THEN "false"
         ELSE LET filterProperty ==
                      find(argsProperty.value.properties, "filter") IN
              IF filterProperty = Thrown THEN "throw"
              ELSE IF ~valueIs(filterProperty, "ObjectExpression") THEN "false"
              ELSE filterHasRequired(filterProperty.value)

----------------------------------------------------------------------------
(* require-entity-query-conditions: the two callbacks *)

Declarator(id, init) == [type |-> "VariableDeclarator", id |-> id, init |-> init]
ObjectPattern(properties) == [type |-> "ObjectPattern", properties |-> properties]
RestElement == [type |-> "RestElement", argument |-> Ident("rest")]
Await(argument) == [type |-> "AwaitExpression", argument |-> argument]
Call(callee, arguments, typeParameters) ==
    [type |-> "CallExpression", callee |-> callee, arguments |-> arguments,
     typeParameters |-> typeParameters]

\* if (!hasRequiredConditions(...)) context.report(...): what the callback
\* does with the validator's answer ("none": the validator was not called).
reaction(answer) ==
    IF answer = "throw" THEN "throw"
    ELSE IF answer = "false" THEN "report"
    ELSE "none"

\* A Property callback that validates the value under any key.
anyKeyVerdict(n) ==
    IF ~IsNull(n.value) /\ n.value.type = "ObjectExpression"
    THEN hasRequiredConditions(n.value)
    ELSE "none"

\* The validator's answer inside Property(node).
PropertyVerdict(n) ==
    IF isEntityQuery(n) /\ ~IsNull(n.value) /\ n.value.type = "ObjectExpression"
    THEN hasRequiredConditions(n.value)
    ELSE "none"

\* A Property callback that reports the first violation of a file only.
firstViolationOnly(n) ==
    IF count > 0 /\ PropertyVerdict(n) = "false" THEN "none"
    ELSE reaction(PropertyVerdict(n))

\* Property(node): "report" | "none" | "throw"
Property(n) == reaction(PropertyVerdict(n))

\* prop => prop.key && prop.key.name === 'entityQuery'
\* No test of the key's type here, and an entry without key is skipped.
keyNamed(prop, name) ==
    LET key == Get(prop, "key") IN
    /\ ~IsNull(key)
    /\ "name" \in DOMAIN key
    /\ key.name = name

RECURSIVE findNamedFrom(_, _, _)
findNamedFrom(properties, name, i) ==
    IF i > Len(properties) THEN Null
    ELSE IF keyNamed(properties[i], name) THEN properties[i]
    ELSE findNamedFrom(properties, name, i + 1)

\* A test of the left-hand pattern that accepts every object pattern.
destructuresAnything(n) ==
    /\ ~IsNull(n.id)
    /\ n.id.type = "ObjectPattern"

\* node.id && node.id.type === 'ObjectPattern' && node.id.properties &&
\* node.id.properties.some(prop => prop.key && prop.key.name === 'entityQuery')
destructuresEntityQuery(n) ==
    /\ ~IsNull(n.id)
    /\ n.id.type = "ObjectPattern"
    /\ \E i \in DOMAIN n.id.properties : keyNamed(n.id.properties[i], "entityQuery")

\* node.init && node.init.type === 'AwaitExpression' && node.init.argument &&
\* node.init.argument.type === 'CallExpression' && arguments && arguments.length > 0
initIsAwaitedCall(n) ==
    /\ ~IsNull(n.init)
    /\ n.init.type = "AwaitExpression"
    /\ ~IsNull(n.init.argument)
    /\ n.init.argument.type = "CallExpression"
    /\ Len(n.init.argument.arguments) > 0

\* A binding callback that leaves object literals to the Property callback.
leavesLiteralsToProperty(n) ==
    IF destructuresEntityQuery(n) /\ initIsAwaitedCall(n)
    THEN LET queryArg == n.init.argument.arguments[1] IN
         IF ~IsNull(queryArg) /\ queryArg.type = "ObjectExpression"
         THEN LET entityQueryProp ==
                      findNamedFrom(queryArg.properties, "entityQuery", 1) IN
              IF IsNull(entityQueryProp) THEN "none"
              ELSE IF Get(entityQueryProp, "value").type = "ObjectExpression" THEN "none"
              ELSE hasRequiredConditions(Get(entityQueryProp, "value"))
         ELSE "none"
    ELSE "none"

\* A binding callback that validates object-literal values only, as the
\* Property callback does.
objectLiteralsOnly(n) ==
    IF destructuresEntityQuery(n) /\ initIsAwaitedCall(n)
    THEN LET queryArg == n.init.argument.arguments[1] IN
         IF ~IsNull(queryArg) /\ queryArg.type = "ObjectExpression"
         THEN LET entityQueryProp ==
                      findNamedFrom(queryArg.properties, "entityQuery", 1) IN
              IF IsNull(entityQueryProp) THEN "none"
              ELSE IF Get(entityQueryProp, "value").type # "ObjectExpression" THEN "none"
              ELSE hasRequiredConditions(Get(entityQueryProp, "value"))
         ELSE "none"
    ELSE "none"

\* The validator's answer inside VariableDeclarator(node).
VariableDeclaratorVerdict(n) ==
    IF destructuresEntityQuery(n) /\ initIsAwaitedCall(n)
    THEN LET queryArg == n.init.argument.arguments[1] IN
         IF ~IsNull(queryArg) /\ queryArg.type = "ObjectExpression"
         THEN LET entityQueryProp ==
                      findNamedFrom(queryArg.properties, "entityQuery", 1) IN
              IF IsNull(entityQueryProp) THEN "none"
              ELSE hasRequiredConditions(Get(entityQueryProp, "value"))
         ELSE "none"
    ELSE "none"

\* VariableDeclarator(node): "report" | "none" | "throw"
VariableDeclarator(n) == reaction(VariableDeclaratorVerdict(n))

----------------------------------------------------------------------------
(* The trees the host hands to require-entity-query-conditions *)

StatusCond == Obj(<<Prop(Ident("field"), Lit("status")), Prop(Ident("value"), Lit("open"))>>)
DentalCond == Obj(<<Prop(Ident("value"), Lit("X")), Prop(Ident("field"), Lit("dental_laboratory"))>>)
OtherCond == Obj(<<Prop(Ident("field"), Lit("type"))>>)
NoFieldCond == Obj(<<Prop(Ident("value"), Lit("open"))>>)
NonLiteralCond == Obj(<<Prop(Ident("field"), Ident("status"))>>)
SpreadFirstCond == Obj(<<Spread, Prop(Ident("field"), Lit("status"))>>)

\* What a conditions array may hold: the two required conditions, unrelated
\* ones, a non-object element, a hole, and an object opening with a spread.
CoreElems == {StatusCond, DentalCond, OtherCond}
UnrelatedElems == {OtherCond, NoFieldCond, NonLiteralCond, Ident("cond"), Null}
CondElems == CoreElems \cup UnrelatedElems \cup {SpreadFirstCond}

SeqsUpTo(A, n) == UNION {[1..k -> A] : k \in 0..n}

\* The value of a conditions or groups property; Null stands for "no such
\* property".
ArrayValues(A, n) == {Null, Ident("list")} \cup {Arr(es) : es \in SeqsUpTo(A, n)}

Keyed(name, value) == IF IsNull(value) THEN <<>> ELSE <<Prop(Ident(name), value)>>

Conjunctions == {Lit("AND"), Lit("OR"), Ident("conj")}
Group(conjunction, conditions) ==
    Obj(Keyed("conjunction", conjunction) \o Keyed("conditions", conditions))
AndBoth == Group(Lit("AND"), Arr(<<StatusCond, DentalCond>>))
OrBoth == Group(Lit("OR"), Arr(<<StatusCond, DentalCond>>))

\* Groups of a given cost: 1 for the group and 1 for each of its conditions.
\* The groups of cost 1 are a hole, a non-object element and groups without
\* a conditions array.
GroupsOfCost(c) ==
    IF c = 1
    THEN {Null, Ident("group"), Group(Lit("AND"), Null),
          Group(Lit("AND"), Ident("list"))}
    ELSE {Group(j, Arr(cs)) : j \in Conjunctions,
                              cs \in [1..(c - 1) -> {StatusCond, DentalCond}]}
         \cup (IF c = 3
               THEN {Group(Null, Arr(<<StatusCond, DentalCond>>)),
                     Obj(<<Spread>> \o AndBoth.properties),
                     Obj(AndBoth.properties \o <<Spread>>)}
               ELSE {})

RECURSIVE GroupSeqs(_, _)
GroupSeqs(m, b) ==
    {<<>>} \cup
    (IF m = 0 \/ b = 0 THEN {}
     ELSE UNION {{<<g>> \o rest : g \in GroupsOfCost(c),
                                  rest \in GroupSeqs(m - 1, b - c)} : c \in 1..b})

Filter(conditions, groups) ==
    Obj(Keyed("conditions", conditions) \o Keyed("groups", groups))

TopSmall == {Null, Arr(<<StatusCond>>), Arr(<<OtherCond, DentalCond>>)}
GroupsSmall == {Null, Arr(<<AndBoth>>)}

\* Filters rich in top-level conditions, and filters rich in groups.
TopFilters == {Filter(c, g) : c \in ArrayValues(CondElems, MaxConds), g \in GroupsSmall}
GroupFilters == {Filter(c, Arr(gs)) : c \in TopSmall, gs \in GroupSeqs(MaxGroups, MaxSize)}
SampleFilters == {Filter(Arr(<<StatusCond, DentalCond>>), Null),
                  Filter(Arr(<<StatusCond>>), Ident("list")),
                  Filter(Null, Arr(<<OrBoth>>))}
SpreadFilters == UNION {{Obj(<<Spread>> \o f.properties), Obj(f.properties \o <<Spread>>)} :
                        f \in SampleFilters}
Filters == TopFilters \cup GroupFilters \cup SpreadFilters

Args(filter) == Obj(Keyed("filter", filter))
Query(args) == Obj(Keyed("__args", args) \o <<Prop(Ident("entities"), Obj(<<>>))>>)

\* The values an entityQuery property may have.
QueryValues ==
    {Query(Args(f)) : f \in Filters}
    \cup {Query(a) : a \in {Null, Ident("args"), Args(Null), Args(Ident("filter"))}}
    \cup UNION {{Query(Obj(<<Spread>> \o Args(f).properties)),
                 Query(Obj(Args(f).properties \o <<Spread>>)),
                 Obj(<<Spread>> \o Query(Args(f)).properties),
                 Obj(<<Spread>>)} : f \in SampleFilters}
QueryValueSamples ==
    {Query(Args(f)) : f \in SampleFilters} \cup {Ident("query"), Obj(<<Spread>>)}

PropertyNodes ==
    {Prop(Ident("entityQuery"), v) : v \in QueryValues \cup {Ident("query")}}
    \cup {Prop(k, v) : k \in {Ident("query"), Lit("entityQuery")}, v \in QueryValueSamples}

FetchCall(arguments) == Call(Ident("fetchData"), arguments, Null)
QueryArg(value) == Obj(<<Prop(Ident("url"), Lit("x")), Prop(Ident("entityQuery"), value)>>)
EntityQueryPattern == ObjectPattern(<<Prop(Ident("entityQuery"), Ident("entityQuery"))>>)

IdSamples == {EntityQueryPattern,
              ObjectPattern(<<RestElement>>),
              ObjectPattern(<<Prop(Ident("data"), Ident("entityQuery"))>>),
              ObjectPattern(<<Prop(Lit("entityQuery"), Ident("q"))>>),
              ObjectPattern(<<RestElement, Prop(Ident("entityQuery"), Ident("q"))>>),
              Ident("entityQuery")}
ArgumentSamples ==
    {<<>>, <<Ident("query")>>, <<Null>>, <<Obj(<<>>)>>, <<Obj(<<Spread>>)>>}
    \cup UNION {{<<QueryArg(v)>>,
                 <<Obj(<<Spread, Prop(Ident("entityQuery"), v)>>)>>,
                 <<Obj(<<Prop(Lit("entityQuery"), v)>>)>>,
                 <<Ident("x"), QueryArg(v)>>} : v \in QueryValueSamples}
InitSamples ==
    {Null, Await(Ident("promise")), Await(Null)}
    \cup UNION {{Await(FetchCall(a)), FetchCall(a)} : a \in ArgumentSamples}

DeclaratorNodes ==
    {Declarator(EntityQueryPattern, Await(FetchCall(<<QueryArg(v)>>))) :
         v \in QueryValues \cup {Ident("query")}}
    \cup {Declarator(id, init) : id \in IdSamples, init \in InitSamples}

----------------------------------------------------------------------------
(* no-direct-scss-imports *)

\* Strings that are inspected character by character are sequences of
\* one-character strings.
ScssSuffix == <<".", "s", "c", "s", "s">>
CssSuffix == <<".", "c", "s", "s">>

\* String.prototype.endsWith
endsWith(str, suffix) ==
    /\ Len(str) >= Len(suffix)
    /\ SubSeq(str, Len(str) - Len(suffix) + 1, Len(str)) = suffix

ImportDecl(path) ==
    [type |-> "ImportDeclaration", source |-> [type |-> "Literal", value |-> path]]

\* An import check that knows the .scss suffix only.
scssOnly(n) ==
    IF endsWith(n.source.value, ScssSuffix) THEN "report" ELSE "none"

\* ImportDeclaration(node): "report" | "none"
ImportDeclaration(n) ==
    LET importPath == n.source.value IN
    IF endsWith(importPath, ScssSuffix) \/ endsWith(importPath, CssSuffix)
    THEN "report"
    ELSE "none"

PathChars == {".", "c", "s", "t"}
ImportNodes == {ImportDecl(p) : p \in SeqsUpTo(PathChars, MaxPathLen)}

----------------------------------------------------------------------------
(* require-generic-props *)

Arrow(params) == [type |-> "ArrowFunctionExpression", params |-> params]
Function(params) == [type |-> "FunctionExpression", params |-> params]
TypeArguments == [type |-> "TSTypeParameterInstantiation"]
Member == [type |-> "MemberExpression", property |-> Ident("component$")]

\* CallExpression(node): "report" | "none"
CallExpression(n) ==
    IF n.callee.type = "Identifier" /\ n.callee.name = "component$"
    THEN LET arrowFunction == IF Len(n.arguments) > 0 THEN n.arguments[1] ELSE Null IN
         IF /\ ~IsNull(arrowFunction)
            /\ arrowFunction.type = "ArrowFunctionExpression"
            /\ Len(arrowFunction.params) > 0
         THEN IF IsNull(n.typeParameters) THEN "report" ELSE "none"
         ELSE "none"
    ELSE "none"

ParamLists == {[i \in 1..k |-> Ident("props")] : k \in 0..MaxParams}
Functions == {Arrow(ps) : ps \in ParamLists} \cup {Function(ps) : ps \in ParamLists}
ArgLists ==
    {<<>>, <<Ident("Component")>>}
    \cup UNION {{<<f>>, <<f, Ident("options")>>, <<Ident("options"), f>>} : f \in Functions}
Callees == {Ident("component$"), Ident("component"), Member}
CallNodes == {Call(c, a, t) : c \in Callees, a \in ArgLists, t \in {Null, TypeArguments}}

----------------------------------------------------------------------------
(* require-document-head *)

\* new RegExp(pattern): the patterns are written with literal characters,
\* "." (any character) and a postfix "*"; a "*" with nothing to repeat is a
\* SyntaxError.
compiles(pattern) ==
    \A i \in DOMAIN pattern :
        pattern[i] = "*" => (i > 1 /\ pattern[i - 1] # "*")

atomMatches(atom, char) == atom = "." \/ atom = char

\* Whether pattern[i..] matches a prefix of str[j..].
RECURSIVE matchHere(_, _, _, _)
matchHere(pattern, i, str, j) ==
    IF i > Len(pattern) THEN TRUE
    ELSE IF i < Len(pattern) /\ pattern[i + 1] = "*"
    THEN \E k \in j..(Len(str) + 1) :
             /\ \A m \in j..(k - 1) : atomMatches(pattern[i], str[m])
             /\ matchHere(pattern, i + 2, str, k)
    ELSE /\ j <= Len(str)
         /\ atomMatches(pattern[i], str[j])
         /\ matchHere(pattern, i + 1, str, j + 1)

\* RegExp.prototype.test: an unanchored search.
test(pattern, str) == \E j \in 1..(Len(str) + 1) : matchHere(pattern, 1, str, j)

\* excludedFiles.some(pattern => new RegExp(pattern).test(filePath)):
\* "true" | "false" | "throw", patterns compiled one by one as the scan goes.
RECURSIVE someExcludes(_, _, _)
someExcludes(excludedFiles, path, i) ==
    IF i > Len(excludedFiles) THEN "false"
    ELSE IF ~compiles(excludedFiles[i]) THEN "throw"
    ELSE IF test(excludedFiles[i], path) THEN "true"
    ELSE someExcludes(excludedFiles, path, i + 1)

EmptyObject == [type |-> "Object"]
WithExcluded(patterns) == [type |-> "Object", excludedFiles |-> patterns]

\* const options = context.options[0] || {};
\* const excludedFiles = options.excludedFiles || [];
excludedFilesOf(opts) ==
    LET first == IF Len(opts) > 0 THEN opts[1] ELSE EmptyObject IN
    IF "excludedFiles" \in DOMAIN first THEN first.excludedFiles ELSE <<>>

ExportNamed(declaration) ==
    [type |-> "ExportNamedDeclaration", declaration |-> declaration]
VariableDeclaration(declarations) ==
    [type |-> "VariableDeclaration", declarations |-> declarations]
FunctionDeclaration(name) ==
    [type |-> "FunctionDeclaration", id |-> Ident(name), params |-> <<>>]
ProgramNode(body) == [type |-> "Program", body |-> body]

\* declaration.id.name === 'head' && declaration.init &&
\* declaration.init.type === 'ArrowFunctionExpression'
declaresHead(declaration) ==
    /\ "name" \in DOMAIN declaration.id
    /\ declaration.id.name = "head"
    /\ ~IsNull(declaration.init)
    /\ declaration.init.type = "ArrowFunctionExpression"

\* node.type === 'ExportNamedDeclaration' && node.declaration &&
\* node.declaration.declarations && node.declaration.declarations.some(...)
exportsHead(statement) ==
    /\ statement.type = "ExportNamedDeclaration"
    /\ ~IsNull(statement.declaration)
    /\ "declarations" \in DOMAIN statement.declaration
    /\ \E i \in DOMAIN statement.declaration.declarations :
           declaresHead(statement.declaration.declarations[i])

hasDocumentHeadExport(body) == \E i \in DOMAIN body : exportsHead(body[i])

\* Program(node): "report" | "none"
Program(n) == IF ~hasDocumentHeadExport(n.body) THEN "report" ELSE "none"

HeadArrow == Declarator(Ident("head"), Arrow(<<>>))
Statements ==
    {ExportNamed(VariableDeclaration(<<HeadArrow>>)),
     ExportNamed(VariableDeclaration(<<Declarator(Ident("head"), Function(<<>>))>>)),
     ExportNamed(VariableDeclaration(<<Declarator(Ident("head"), Obj(<<>>))>>)),
     ExportNamed(VariableDeclaration(<<Declarator(Ident("onGet"), Arrow(<<>>))>>)),
     ExportNamed(VariableDeclaration(<<Declarator(Ident("title"), Lit("x")), HeadArrow>>)),
     ExportNamed(VariableDeclaration(
         <<Declarator(ObjectPattern(<<Prop(Ident("head"), Ident("head"))>>), Arrow(<<>>))>>)),
     ExportNamed(FunctionDeclaration("head")),
     VariableDeclaration(<<HeadArrow>>)}
ProgramNodes == {ProgramNode(b) : b \in SeqsUpTo(Statements, MaxBody)}

Patterns == {<<"a">>, <<"a", ".", "b">>, <<"a", "*", "b">>, <<"*", "*", "/", "b">>}
FilePaths == {<<"a", "/", "b">>, <<"b", "b">>}
OptionValues ==
    {<<>>, <<EmptyObject>>}
    \cup {<<WithExcluded(ps)>> : ps \in SeqsUpTo(Patterns, MaxPatterns)}

----------------------------------------------------------------------------
(* The rule registry and the host *)

\* A registry without the entity-query rule.
rulesBeforeEntityQuery ==
    {"no-direct-scss-imports", "require-document-head", "require-generic-props"}

Rules == {"no-direct-scss-imports", "require-document-head",
          "require-entity-query-conditions", "require-generic-props"}

NodeKinds == {"Program", "ImportDeclaration", "CallExpression", "Property",
              "VariableDeclarator", "Literal"}

\* rules[name].create(context): the table of callbacks, or a throw.
Table(kinds) == [threw |-> FALSE, table |-> kinds]
create(name, path, opts) ==
    IF name = "no-direct-scss-imports" THEN Table({"ImportDeclaration"})
    ELSE IF name = "require-document-head"
    THEN LET excluded == someExcludes(excludedFilesOf(opts), path, 1) IN
         IF excluded = "throw" THEN [threw |-> TRUE, table |-> {}]
         ELSE IF excluded = "true" THEN Table({})
         ELSE Table({"Program"})
    ELSE IF name = "require-entity-query-conditions"
    THEN Table({"Property", "VariableDeclarator"})
    ELSE Table({"CallExpression"})

Message(name) ==
    IF name = "no-direct-scss-imports"
    THEN "Avoid direct imports of SCSS files in component libraries in Qwik. Use classes instead and import the SCSS file in the global SCSS file."
    ELSE IF name = "require-document-head"
    THEN "Every route file must export a DocumentHead constant."
    ELSE IF name = "require-entity-query-conditions"
    THEN "Entity queries must have the required \"status\" and \"dental_laboratory\" conditions either at the top level or in a group with AND conjunction."
    ELSE "The component$ call must have generic type parameters defining the props."

\* Only require-document-head is configured with options, and only it reads
\* the file name.
Contexts(name) ==
    IF name = "require-document-head" THEN FilePaths \X OptionValues
    ELSE {<<<<"a", "/", "b">>, <<>>>>}

Init ==
    /\ rule \in Rules
    /\ \E c \in Contexts(rule) : filePath = c[1] /\ options = c[2]
    /\ pc = "start"
    /\ callbacks = {}
    /\ node = Null
    /\ verdict = "none"
    /\ emitted = <<>>
    /\ count = 0
    /\ earlier = Null

\* The host calls create(context) once for the file.
Create ==
    /\ pc = "start"
    /\ LET made == create(rule, filePath, options) IN
       /\ pc' = IF made.threw THEN "crashed" ELSE "created"
       /\ callbacks' = made.table
    /\ UNCHANGED <<rule, filePath, options, node, verdict, emitted, count, earlier>>

\* The host runs the callback registered for n's kind; context.report takes
\* each diagnostic at once, and an exception ends the walk.
Deliver(n, outcome, answer) ==
    /\ node' = n
    /\ verdict' = answer
    /\ pc' = IF outcome = "throw" THEN "crashed" ELSE "visited"
    /\ emitted' = IF outcome = "report"
                  THEN <<[node |-> n, message |-> Message(rule)]>>
                  ELSE <<>>
    /\ count' = count + Len(emitted')
    /\ UNCHANGED <<rule, filePath, options, callbacks, earlier>>

\* The walk enters the root first.
VisitProgram ==
    /\ pc = "created"
    /\ IF "Program" \in callbacks
       THEN \E n \in ProgramNodes : Deliver(n, Program(n), "none")
       ELSE Deliver([type |-> "Program"], "none", "none")

Walking == pc = "ready" /\ count < MaxReports

VisitImportDeclaration ==
    /\ Walking
    /\ "ImportDeclaration" \in callbacks
    /\ \E n \in ImportNodes : Deliver(n, ImportDeclaration(n), "none")

VisitCallExpression ==
    /\ Walking
    /\ "CallExpression" \in callbacks
    /\ \E n \in CallNodes : Deliver(n, CallExpression(n), "none")

VisitProperty ==
    /\ Walking
    /\ "Property" \in callbacks
    /\ \E n \in PropertyNodes : Deliver(n, Property(n), PropertyVerdict(n))

VisitVariableDeclarator ==
    /\ Walking
    /\ "VariableDeclarator" \in callbacks
    /\ \E n \in DeclaratorNodes : Deliver(n, VariableDeclarator(n), VariableDeclaratorVerdict(n))

\* A node of a kind the table has no callback for: nothing runs.
VisitOther ==
    /\ Walking
    /\ \E kind \in (NodeKinds \ {"Program"}) \ callbacks :
           Deliver([type |-> kind], "none", "none")

\* The host moves on to the next node.
Advance ==
    /\ pc = "visited"
    /\ pc' = "ready"
    /\ node' = Null
    /\ verdict' = "none"
    /\ emitted' = <<>>
    /\ UNCHANGED <<rule, filePath, options, callbacks, count, earlier>>

Next ==
    \/ Create
    \/ VisitProgram
    \/ VisitImportDeclaration
    \/ VisitCallExpression
    \/ VisitProperty
    \/ VisitVariableDeclarator
    \/ VisitOther
    \/ Advance

Spec == Init /\ [][Next]_vars

----------------------------------------------------------------------------
(* A walk that keeps one earlier visit, over a handful of nodes *)

\* The callback the returned table holds for the node's kind, run on it.
Callback(n) ==
    CASE n.type = "ImportDeclaration" -> ImportDeclaration(n)
      [] n.type = "CallExpression" -> CallExpression(n)
      [] n.type = "Property" -> Property(n)
      [] n.type = "VariableDeclarator" -> VariableDeclarator(n)

\* What the validator answered inside that callback.
Answer(n) ==
    CASE n.type = "Property" -> PropertyVerdict(n)
      [] n.type = "VariableDeclarator" -> VariableDeclaratorVerdict(n)
      [] OTHER -> "none"

\* const { entityQuery } = await fetchData({ url: 'x', entityQuery: v }),
\* and the entityQuery property of its first argument.
Binding(v) == Declarator(EntityQueryPattern, Await(FetchCall(<<QueryArg(v)>>)))
Nested(v) == Prop(Ident("entityQuery"), v)

SampleNodes ==
    {Binding(v) : v \in QueryValueSamples}
    \cup {Nested(v) : v \in QueryValueSamples}
    \cup {ImportDecl(<<".", "c", "s", "s">>), ImportDecl(<<".", "s", "c", "s", "s">>),
          ImportDecl(<<"t", ".", "t", "s">>)}
    \cup {Call(Ident("component$"), <<Arrow(<<Ident("props")>>)>>, t) :
              t \in {Null, TypeArguments}}
    \cup {Call(Ident("component$"), <<Arrow(<<>>)>>, Null)}

VisitSample ==
    /\ Walking
    /\ \E n \in {m \in SampleNodes : m.type \in callbacks} :
           Deliver(n, Callback(n), Answer(n))

\* The host moves on, and the visit just made is the one kept.
Keep ==
    /\ pc = "visited"
    /\ IsNull(earlier)
    /\ node \in SampleNodes
    /\ earlier' = [type |-> "Visit", node |-> node, verdict |-> verdict,
                   emitted |-> emitted]
    /\ pc' = "ready"
    /\ node' = Null
    /\ verdict' = "none"
    /\ emitted' = <<>>
    /\ UNCHANGED <<rule, filePath, options, callbacks, count>>

NextRevisit ==
    \/ Create
    \/ VisitProgram
    \/ VisitSample
    \/ VisitOther
    \/ Advance
    \/ Keep

SpecRevisit == Init /\ [][NextRevisit]_vars

----------------------------------------------------------------------------
(* The vocabulary of the properties: what a tree is, said without the scans *)
(* of the rules                                                             *)

EntityRule == "require-entity-query-conditions"
HeadRule == "require-document-head"

\* The callback for the node the host is at has run (to its end or into an
\* exception).
Ran == pc \in {"visited", "crashed"}
ValidatorRan == Ran /\ verdict # "none"

\* context.report was called exactly once by the last callback, with n.
OneDiagnosticOn(n) == emitted = <<[node |-> n, message |-> Message(rule)]>>

\* Every property list in the tree holds keyed properties only.
RECURSIVE AllKeyed(_)
AllKeyed(n) ==
    IF n.type = "ObjectExpression"
    THEN \A i \in DOMAIN n.properties :
             /\ n.properties[i].type = "Property"
             /\ AllKeyed(n.properties[i].value)
    ELSE IF n.type = "ArrayExpression"
    THEN \A i \in DOMAIN n.elements : AllKeyed(n.elements[i])
    ELSE TRUE

\* The indexes of the properties of obj whose key is the identifier name.
Named(obj, name) ==
    {i \in DOMAIN obj.properties :
         /\ obj.properties[i].type = "Property"
         /\ obj.properties[i].key = Ident(name)}

HasProperty(obj, name) == obj.type = "ObjectExpression" /\ Named(obj, name) # {}

\* The value of that property (keys are unique within an object literal).
ValueOf(obj, name) ==
    IF HasProperty(obj, name)
    THEN obj.properties[CHOOSE i \in Named(obj, name) : TRUE].value
    ELSE Null

\* The element sequence of the array literal under name, if there is one.
ArrayOf(obj, name) ==
    LET v == ValueOf(obj, name) IN
    IF v.type = "ArrayExpression" THEN {v.elements} ELSE {}

\* A condition object whose field is the literal f.
NamesField(e, f) == e.type = "ObjectExpression" /\ ValueOf(e, "field") = Lit(f)

HoldsBoth(elements) ==
    /\ \E i \in DOMAIN elements : NamesField(elements[i], "status")
    /\ \E i \in DOMAIN elements : NamesField(elements[i], "dental_laboratory")

\* The groups of the filter whose conjunction is the literal "AND".
AndGroups(filter) ==
    UNION {{gs[i] : i \in {j \in DOMAIN gs :
                               /\ gs[j].type = "ObjectExpression"
                               /\ ValueOf(gs[j], "conjunction") = Lit("AND")}} :
           gs \in ArrayOf(filter, "groups")}

\* The condition sets: the top-level conditions and those of the AND groups.
ConditionSets(filter) ==
    ArrayOf(filter, "conditions")
    \cup UNION {ArrayOf(g, "conditions") : g \in AndGroups(filter)}

Compliant(filter) == \E cs \in ConditionSets(filter) : HoldsBoth(cs)

FilterOf(query) == ValueOf(ValueOf(query, "__args"), "filter")
CompliantQuery(query) == Compliant(FilterOf(query))

\* The entity-query value the last callback handed to the validator.
ValidatedQuery ==
    IF node.type = "Property" THEN node.value
    ELSE ValueOf(node.init.argument.arguments[1], "entityQuery")

ValidatedFilter == FilterOf(ValidatedQuery)

\* The validator ran on a query whose property lists are all keyed.
ValidatedKeyed == ValidatorRan /\ AllKeyed(ValidatedQuery)

----------------------------------------------------------------------------
(* The validator *)

\* C1: on every filter object literal reached through __args.filter, the
\* validator answers true if and only if some condition set (the top-level
\* conditions array, or the conditions array of a group whose conjunction is
\* the literal "AND") holds a condition object whose field literal is
\* "status" and one whose field literal is "dental_laboratory".  Stated for
\* trees whose property lists are all keyed.
C1_TrueIffSomeConditionSetHoldsBoth ==
    (ValidatedKeyed /\ ValidatedFilter.type = "ObjectExpression")
        => verdict = (IF Compliant(ValidatedFilter) THEN "true" ELSE "false")

\* The validator answered true on account of an AND group, the top-level
\* conditions being there but short of one field.
C1_TrueThroughAndGroup ==
    /\ ValidatedKeyed
    /\ verdict = "true"
    /\ \E cs \in ArrayOf(ValidatedFilter, "conditions") : Len(cs) > 0 /\ ~HoldsBoth(cs)
    /\ \E g \in AndGroups(ValidatedFilter) :
           \E cs \in ArrayOf(g, "conditions") : HoldsBoth(cs)

\* The filter has no conditions of its own, its groups array holds a group
\* object, and no group has the conjunction "AND".
OnlyOtherConjunctions(filter) ==
    /\ filter.type = "ObjectExpression"
    /\ ~HasProperty(filter, "conditions")
    /\ \E gs \in ArrayOf(filter, "groups") :
           \E i \in DOMAIN gs : gs[i].type = "ObjectExpression"
    /\ AndGroups(filter) = {}

\* C2: when the only condition source of a filter is a group whose
\* conjunction is not "AND" ("OR", missing, not a literal), the validator
\* answers false, also when that group's conditions hold both required
\* fields, and the rule reports one diagnostic.
C2_OtherConjunctionIsRejected ==
    (ValidatedKeyed /\ OnlyOtherConjunctions(ValidatedFilter))
        => /\ verdict = "false"
           /\ pc = "visited"
           /\ OneDiagnosticOn(node)

\* An "OR" group holding both required fields was rejected and reported.
C2_OrGroupWithBothReported ==
    /\ ValidatedKeyed
    /\ OnlyOtherConjunctions(ValidatedFilter)
    /\ \E gs \in ArrayOf(ValidatedFilter, "groups") :
           \E i \in DOMAIN gs :
               /\ ValueOf(gs[i], "conjunction") = Lit("OR")
               /\ \E cs \in ArrayOf(gs[i], "conditions") : HoldsBoth(cs)
    /\ verdict = "false"
    /\ OneDiagnosticOn(node)

Perms(n) == {p \in [1..n -> 1..n] : \A i, j \in 1..n : p[i] = p[j] => i = j}
Permuted(cs, p) == [i \in DOMAIN cs |-> cs[p[i]]]
Inserted(cs, k, u) == SubSeq(cs, 1, k) \o <<u>> \o SubSeq(cs, k + 1, Len(cs))

\* The validator's answer on the entity query whose filter has cs as its
\* top-level conditions and nothing else.
AnswerOn(cs) == hasRequiredConditions(Query(Args(Filter(Arr(cs), Null))))

\* C3: a top-level conditions array that holds a condition on "status" and
\* one on "dental_laboratory" is judged compliant, and so is every
\* permutation of it and every array made from it by inserting an unrelated
\* element (a condition on another field, one without field, a non-object
\* element, a hole) at any position.
C3_OrderAndPositionDoNotMatter ==
    \A cs \in (IF ValidatedKeyed THEN ArrayOf(ValidatedFilter, "conditions") ELSE {}) :
        HoldsBoth(cs)
            => /\ verdict = "true"
               /\ \A p \in Perms(Len(cs)) : AnswerOn(Permuted(cs, p)) = "true"
               /\ \A k \in 0..Len(cs) : \A u \in UnrelatedElems :
                      AnswerOn(Inserted(cs, k, u)) = "true"

\* A compliant array with an unrelated element first and the condition on
\* "dental_laboratory" ahead of the one on "status".
C3_UnrelatedFirstDentalBeforeStatus ==
    /\ ValidatedKeyed
    /\ verdict = "true"
    /\ \E cs \in ArrayOf(ValidatedFilter, "conditions") :
           /\ Len(cs) = 3
           /\ cs[1] \in UnrelatedElems
           /\ NamesField(cs[2], "dental_laboratory")
           /\ NamesField(cs[3], "status")

\* C4: the validator never throws: on every tree, malformed ones included
\* (a property list with an entry without key, such as a spread element, at
\* the entity-query, __args, filter, group or condition level), it ends
\* with a boolean.
C4_ValidatorNeverThrows ==
    rule = EntityRule => (verdict \in {"none", "true", "false"} /\ pc # "crashed")

----------------------------------------------------------------------------
(* The callbacks of require-entity-query-conditions *)

AtProperty == rule = EntityRule /\ Ran /\ node.type = "Property"
AtDeclarator == rule = EntityRule /\ Ran /\ node.type = "VariableDeclarator"

\* What the rule owes a query: nothing if it is compliant, one diagnostic on
\* the visited node if its filter is missing, malformed or not compliant.
Judged(query) ==
    /\ pc = "visited"
    /\ IF CompliantQuery(query) THEN emitted = <<>> ELSE OneDiagnosticOn(node)

\* C5: the Property callback, on a Property node whose key is the identifier
\* entityQuery and whose value is an object literal, reports exactly one
\* diagnostic, on that node, if the filter reached through __args.filter is
\* missing, malformed or not compliant, and nothing if it is compliant; on
\* every other Property node it reports nothing.  Stated for values whose
\* property lists are all keyed.
C5_PropertyContext ==
    AtProperty
        => IF node.key = Ident("entityQuery") /\ node.value.type = "ObjectExpression"
           THEN AllKeyed(node.value) => Judged(node.value)
           ELSE pc = "visited" /\ emitted = <<>>

\* An entityQuery property whose filter is there, and short of a field, was
\* reported, after an earlier diagnostic in the same file.
C5_SecondReportOnProperty ==
    /\ AtProperty
    /\ node.key = Ident("entityQuery")
    /\ AllKeyed(node.value)
    /\ FilterOf(node.value).type = "ObjectExpression"
    /\ ConditionSets(FilterOf(node.value)) # {}
    /\ OneDiagnosticOn(node)
    /\ count = 2

\* The binding destructures a property named entityQuery from an awaited
\* call whose first argument is an object literal with an entityQuery
\* property.
BindsEntityQuery(n) ==
    /\ n.id.type = "ObjectPattern"
    /\ \E i \in DOMAIN n.id.properties :
           /\ n.id.properties[i].type = "Property"
           /\ n.id.properties[i].key = Ident("entityQuery")
    /\ n.init.type = "AwaitExpression"
    /\ n.init.argument.type = "CallExpression"
    /\ Len(n.init.argument.arguments) > 0
    /\ HasProperty(n.init.argument.arguments[1], "entityQuery")

\* C6: the VariableDeclarator callback, on a binding that destructures
\* entityQuery from an awaited call whose first argument is an object
\* literal with an entityQuery property, reports exactly one diagnostic on
\* the binding if that entity query's __args.filter is not compliant and
\* none if it is; a binding that fails one of the shape conditions is never
\* reported.  Stated for entity queries whose property lists are all keyed.
C6_VariableBindingContext ==
    AtDeclarator
        => IF BindsEntityQuery(node)
           THEN LET query == ValueOf(node.init.argument.arguments[1], "entityQuery") IN
                AllKeyed(query) => Judged(query)
           ELSE pc = "visited" /\ emitted = <<>>

\* A binding of the right shape whose query is compliant through an AND
\* group only went unreported.
C6_CompliantBindingUnreported ==
    /\ AtDeclarator
    /\ BindsEntityQuery(node)
    /\ AllKeyed(ValidatedQuery)
    /\ ~HasProperty(ValidatedFilter, "conditions")
    /\ CompliantQuery(ValidatedQuery)
    /\ pc = "visited"
    /\ emitted = <<>>

----------------------------------------------------------------------------
(* no-direct-scss-imports *)

EndsIn(path, suffix) == \E k \in 0..Len(path) : path = SubSeq(path, 1, k) \o suffix

AtImport == rule = "no-direct-scss-imports" /\ Ran /\ node.type = "ImportDeclaration"

\* C7: the stylesheet-import rule reports a diagnostic on an import
\* declaration if and only if the imported path ends with ".scss" or ".css";
\* each visited import gets at most one diagnostic.
C7_ReportsIffStylesheet ==
    AtImport
        => /\ pc = "visited"
           /\ emitted # <<>> <=> (\/ EndsIn(node.source.value, ScssSuffix)
                                  \/ EndsIn(node.source.value, CssSuffix))
           /\ emitted # <<>> => OneDiagnosticOn(node)

\* An import of a path that ends with ".css" and not with ".scss" was
\* reported.
C7_CssImportReported ==
    /\ AtImport
    /\ EndsIn(node.source.value, CssSuffix)
    /\ ~EndsIn(node.source.value, ScssSuffix)
    /\ Len(node.source.value) > Len(CssSuffix)
    /\ OneDiagnosticOn(node)

----------------------------------------------------------------------------
(* require-generic-props *)

AtCall == rule = "require-generic-props" /\ Ran /\ node.type = "CallExpression"

\* The call's argument is a function expression, of either syntax, that
\* declares a parameter.
HasFunctionWithParameter(n) ==
    /\ Len(n.arguments) > 0
    /\ n.arguments[1].type \in {"ArrowFunctionExpression", "FunctionExpression"}
    /\ Len(n.arguments[1].params) > 0

\* C8: the generic-props rule reports a diagnostic on a call if and only if
\* its callee is the identifier component$, the call has no explicit type
\* arguments, and its function-expression argument declares at least one
\* parameter.
C8_ReportsIffUntypedComponentWithParameter ==
    AtCall
        => /\ pc = "visited"
           /\ OneDiagnosticOn(node) <=> (/\ node.callee = Ident("component$")
                                         /\ IsNull(node.typeParameters)
                                         /\ HasFunctionWithParameter(node))
           /\ emitted # <<>> => OneDiagnosticOn(node)

----------------------------------------------------------------------------
(* require-document-head *)

\* The pattern, compiled to a matcher, matches the path.
Matches(pattern, path) == compiles(pattern) /\ test(pattern, path)

\* Match-any over the configured patterns; no options, or no excludedFiles
\* in them, excludes nothing.
Excluded ==
    /\ Len(options) > 0
    /\ "excludedFiles" \in DOMAIN options[1]
    /\ \E i \in DOMAIN options[1].excludedFiles :
           Matches(options[1].excludedFiles[i], filePath)

\* A top-level named export of a binding head whose initializer is a
\* function expression, of either syntax.
ExportsHeadFunction(body) ==
    \E i \in DOMAIN body :
        /\ body[i].type = "ExportNamedDeclaration"
        /\ body[i].declaration.type = "VariableDeclaration"
        /\ \E j \in DOMAIN body[i].declaration.declarations :
               LET d == body[i].declaration.declarations[j] IN
               /\ d.id = Ident("head")
               /\ d.init.type \in {"ArrowFunctionExpression", "FunctionExpression"}

\* C9: for a file that is not excluded (no options, or no excludedFiles,
\* excludes nothing), the document-head rule reports exactly one diagnostic,
\* on entering the root node, if and only if the top-level declarations hold
\* no named export of a binding head whose initializer is a function
\* expression; with such an export it reports nothing.
C9_ReportsOnceIffNoHeadExport ==
    (rule = HeadRule /\ ~Excluded /\ Ran /\ node.type = "Program")
        => /\ "body" \in DOMAIN node
           /\ IF ExportsHeadFunction(node.body)
              THEN emitted = <<>> /\ count = 0
              ELSE OneDiagnosticOn(node) /\ count = 1

\* C10: when the file path matches at least one of the configured
\* excludedFiles patterns, create returns a table without callbacks, and
\* whatever nodes are visited the rule reports no diagnostic.
C10_ExcludedFileIsSilent ==
    (rule = HeadRule /\ Excluded /\ pc # "start")
        => /\ pc # "crashed"
           /\ callbacks = {}
           /\ count = 0

----------------------------------------------------------------------------
(* The rule registry *)

RequiredRules == {"no-direct-scss-imports", "require-document-head",
                  "require-generic-props", "require-entity-query-conditions"}

\* What create(context) of the named rule gives back, whenever it returns,
\* for the file at hand: a table whose keys are node kinds.
ReturnsTable(name) ==
    LET made == create(name, filePath, options) IN
    ~made.threw => made.table \subseteq NodeKinds

----------------------------------------------------------------------------
(* No hidden state *)

\* The node the host is at is one it has been at before in this file.
Revisited == Ran /\ ~IsNull(earlier) /\ node = earlier.node

----------------------------------------------------------------------------
(* One single condition set *)

FoundSomewhere(filter, f) ==
    \E cs \in ConditionSets(filter) : \E i \in DOMAIN cs : NamesField(cs[i], f)

\* Each required field is in some condition set, and no set holds both.
Split(filter) ==
    /\ FoundSomewhere(filter, "status")
    /\ FoundSomewhere(filter, "dental_laboratory")
    /\ \A cs \in ConditionSets(filter) : ~HoldsBoth(cs)

\* The top-level conditions are there and short of a field, and some AND
\* group holds both.
RescuedByGroup(filter) ==
    /\ \E cs \in ArrayOf(filter, "conditions") : ~HoldsBoth(cs)
    /\ \E g \in AndGroups(filter) : \E cs \in ArrayOf(g, "conditions") : HoldsBoth(cs)

\* C13: both required fields must be in one single condition set: a filter
\* whose two conditions are split between the top-level conditions and an
\* AND group, or between two AND groups, is judged non-compliant; a filter
\* whose top-level conditions are insufficient is judged compliant when some
\* AND group holds both.
C13_BothFieldsInOneSet ==
    ValidatedKeyed
        => /\ Split(ValidatedFilter) => verdict = "false"
           /\ RescuedByGroup(ValidatedFilter) => verdict = "true"

Holds(elements, f) == \E i \in DOMAIN elements : NamesField(elements[i], f)

\* A filter judged non-compliant whose top-level conditions hold one required
\* field, one AND group the other, and a second AND group the first again:
\* split between the top level and a group, and between two groups.
C13_SplitBetweenTwoAndGroups ==
    /\ ValidatedKeyed
    /\ Split(ValidatedFilter)
    /\ \E cs \in ArrayOf(ValidatedFilter, "conditions") : Holds(cs, "dental_laboratory")
    /\ \E g1, g2 \in AndGroups(ValidatedFilter) :
           /\ \E cs \in ArrayOf(g1, "conditions") : Holds(cs, "status")
           /\ \E cs \in ArrayOf(g2, "conditions") : Holds(cs, "dental_laboratory")
    /\ verdict = "false"
    /\ OneDiagnosticOn(node)

----------------------------------------------------------------------------
(* One query, two trigger contexts *)

\* The entityQuery property of the first argument of the binding's call.
NestedProperty(d) ==
    LET arg == d.init.argument.arguments[1] IN
    arg.properties[CHOOSE i \in Named(arg, "entityQuery") : TRUE]

\* d destructures entityQuery from an awaited call, and p is the entityQuery
\* property, with an object literal as value, of the call's first argument.
BindingAndItsProperty(d, p) ==
    /\ d.type = "VariableDeclarator"
    /\ BindsEntityQuery(d)
    /\ p = NestedProperty(d)
    /\ p.value.type = "ObjectExpression"

\* The kept visit and the present one are those of such a pair, in either
\* order.
BothContextsVisited ==
    /\ rule = EntityRule
    /\ Ran
    /\ ~IsNull(earlier)
    /\ \/ BindingAndItsProperty(earlier.node, node)
       \/ BindingAndItsProperty(node, earlier.node)

\* The query the two visits are about.
SharedQuery == IF node.type = "Property" THEN node.value ELSE earlier.node.value

\* C14: over one traversal, a non-compliant entity query written as the
\* object-literal entityQuery property of the first argument of an awaited
\* call whose result is destructured with entityQuery gets two diagnostics:
\* one from the Property callback on the property node and one from the
\* VariableDeclarator callback on the binding node, in whichever order the
\* host visits them; a compliant query in that position gets none.  Stated
\* for queries whose property lists are all keyed.
C14_TwoDiagnosticsForOneQuery ==
    (BothContextsVisited /\ AllKeyed(SharedQuery))
        => /\ pc = "visited"
           /\ IF CompliantQuery(SharedQuery)
              THEN earlier.emitted = <<>> /\ emitted = <<>>
              ELSE /\ earlier.emitted = <<[node |-> earlier.node, message |-> Message(rule)]>>
                   /\ OneDiagnosticOn(node)
                   /\ count >= 2

\* The binding was reported first and the property of its first argument
\* after it: two diagnostics for one query.
C14_BindingThenPropertyReported ==
    /\ BothContextsVisited
    /\ AllKeyed(SharedQuery)
    /\ earlier.node.type = "VariableDeclarator"
    /\ earlier.emitted # <<>>
    /\ OneDiagnosticOn(node)
    /\ count = 2

\* C15: an entityQuery property whose value is not an object literal (an
\* identifier reference, say) is treated differently by the two contexts:
\* the Property callback reports nothing for it, and the VariableDeclarator
\* callback, finding it in the first argument of the awaited call, reports a
\* diagnostic.
C15_NonObjectValueInTheTwoContexts ==
    /\ (AtProperty /\ node.key = Ident("entityQuery")
            /\ node.value.type # "ObjectExpression")
           => pc = "visited" /\ verdict = "none" /\ emitted = <<>>
    /\ (AtDeclarator /\ BindsEntityQuery(node)
            /\ NestedProperty(node).value.type # "ObjectExpression")
           => pc = "visited" /\ verdict = "false" /\ OneDiagnosticOn(node)

\* A binding whose call is given entityQuery: query, an identifier, was
\* reported.
C15_IdentifierValueReportedOnBinding ==
    /\ AtDeclarator
    /\ BindsEntityQuery(node)
    /\ NestedProperty(node).value = Ident("query")
    /\ OneDiagnosticOn(node)

====
